---------------------------- MODULE Spec2Model ----------------------------
(***************************************************************************)
(* Model of the static file handler of src/server/http/serveStatic.ts.     *)
(*                                                                         *)
(* Strings are sequences of one-character strings, so that the traversal   *)
(* test, the percent-decoding, path.join and the suffixes appended to a    *)
(* path are computed character by character as the code computes them.     *)
(* The percent escapes of a URL are kept as single tokens ("%2F", ...).    *)
(***************************************************************************)
EXTENDS Integers, Sequences, FiniteSets, TLC

(***************************************************************************)
(* Bounds of the model.                                                    *)
(***************************************************************************)
\* tokens of a request pathname after its leading "/"
MaxPathLen == 3
\* largest number written in a Range header
MaxRangeNum == 3
\* tokens, after the leading "/", of the pathname of a request that carries
\* headers or a method other than GET
MaxHeaderPathLen == 2
\* encodings listed in an Accept-Encoding header
MaxAccept == 2

(***************************************************************************)
(* Values standing for "absent" (undefined / null / header not sent).      *)
(***************************************************************************)
NoStr == <<"<none>">>
Unread == <<"<unread>">>

(***************************************************************************)
(* Generic string helpers.                                                 *)
(***************************************************************************)
Str(S, n) == UNION {[1..k -> S] : k \in 0..n}

RECURSIVE SplitOn(_, _)
\* String.prototype.split(sep) for a one-character separator: the list of
\* the pieces between separators (always at least one piece).
SplitOn(s, sep) ==
  IF \A i \in 1..Len(s) : s[i] # sep
  THEN <<s>>
  ELSE LET i == CHOOSE j \in 1..Len(s) :
                   s[j] = sep /\ \A k \in 1..(j - 1) : s[k] # sep
       IN <<SubSeq(s, 1, i - 1)>> \o SplitOn(SubSeq(s, i + 1, Len(s)), sep)

RECURSIVE JoinWith(_, _)
\* Array.prototype.join(sep)
JoinWith(parts, sep) ==
  IF parts = <<>> THEN <<>>
  ELSE IF Len(parts) = 1 THEN parts[1]
  ELSE parts[1] \o <<sep>> \o JoinWith(Tail(parts), sep)

(***************************************************************************)
(* The request pathname and its decoding (serveStatic.ts lines 79-89).     *)
(***************************************************************************)
\* Tokens of url.pathname: literal characters, percent escapes of "/", "\"
\* and ".", and "%" for a malformed escape (a "%" not followed by two hex
\* digits), which the URL parser leaves in the pathname as it is.
RawTokens == {"/", ".", "a", "%2F", "%5C", "%2E", "%"}

IsSingleDot(seg) == seg \in {<<".">>, <<"%2E">>}
IsDoubleDot(seg) == Len(seg) = 2 /\ \A i \in 1..2 : seg[i] \in {".", "%2E"}

\* new URL(req.url).pathname of an http(s) request: it begins with "/", and
\* the URL parser has already removed every segment that is a single-dot or
\* double-dot segment (written with "." or "%2e"), so no such segment is left
\* between two "/".
URLPathnames ==
  {<<"/">> \o t : t \in
     {u \in Str(RawTokens, MaxPathLen) :
        \A i \in 1..Len(SplitOn(u, "/")) :
           LET seg == SplitOn(u, "/")[i]
           IN ~IsSingleDot(seg) /\ ~IsDoubleDot(seg)}}

DecodeToken(t) ==
  CASE t = "%2F" -> "/"
    [] t = "%5C" -> "\\"
    [] t = "%2E" -> "."
    [] OTHER -> t

\* decodeURIComponent throws URIError on a malformed escape
DecodeThrows(raw) == \E i \in 1..Len(raw) : raw[i] = "%"
decodeURIComponent(raw) == [i \in 1..Len(raw) |-> DecodeToken(raw[i])]

\* the character class [\/\\] of the traversal pattern
IsSep(c) == c \in {"/", "\\"}

\* /(?:^|[\/\\])\.\.(?:$|[\/\\])/.test(s)
TraversalRegexTest(s) ==
  \E i \in 1..(Len(s) - 1) :
     /\ s[i] = "." /\ s[i + 1] = "."
     /\ (i = 1 \/ IsSep(s[i - 1]))
     /\ (i + 1 = Len(s) \/ IsSep(s[i + 2]))

(***************************************************************************)
(* node:path join (posix), lines 95-100 and 106.                           *)
(***************************************************************************)
RECURSIVE NormalizeSegs(_, _, _)
\* normalizeString: fold the segments onto a stack; "" and "." are dropped,
\* ".." pops a name, is dropped at the top of an absolute path and is kept
\* at the top of a relative one.
NormalizeSegs(segs, stack, allowAboveRoot) ==
  IF segs = <<>> THEN stack
  ELSE LET seg == Head(segs)
           rest == Tail(segs)
       IN IF seg = <<>> \/ seg = <<".">>
          THEN NormalizeSegs(rest, stack, allowAboveRoot)
          ELSE IF seg = <<".", ".">>
          THEN IF stack # <<>> /\ stack[Len(stack)] # <<".", ".">>
               THEN NormalizeSegs(rest, SubSeq(stack, 1, Len(stack) - 1),
                                  allowAboveRoot)
               ELSE IF allowAboveRoot
               THEN NormalizeSegs(rest, Append(stack, seg), allowAboveRoot)
               ELSE NormalizeSegs(rest, stack, allowAboveRoot)
          ELSE NormalizeSegs(rest, Append(stack, seg), allowAboveRoot)

\* path.normalize
normalize(p) ==
  IF p = <<>> THEN <<".">>
  ELSE LET isAbsolute == p[1] = "/"
           trailingSeparator == p[Len(p)] = "/"
           body == JoinWith(NormalizeSegs(SplitOn(p, "/"), <<>>, ~isAbsolute),
                            "/")
       IN IF body = <<>>
          THEN IF isAbsolute THEN <<"/">>
               ELSE IF trailingSeparator THEN <<".", "/">> ELSE <<".">>
          ELSE (IF isAbsolute THEN <<"/">> ELSE <<>>) \o body
               \o (IF trailingSeparator THEN <<"/">> ELSE <<>>)

\* path.join(a, b): the non-empty arguments joined by "/", then normalized
join(a, b) ==
  IF a = <<>> /\ b = <<>> THEN <<".">>
  ELSE IF a = <<>> THEN normalize(b)
  ELSE IF b = <<>> THEN normalize(a)
  ELSE normalize(a \o <<"/">> \o b)

(***************************************************************************)
(* The filesystem the handler reads (lstatSync, createReadStream): a       *)
(* fixture tree.  A node is named by the list of names from "/" down.      *)
(* The process runs in Cwd; root "p" is the directory /w/p.                *)
(***************************************************************************)
Cwd == <<(<<"w">>)>>
IndexHtml == <<"i", "n", "d", "e", "x", ".", "h", "t", "m", "l">>

Dir(id) == [kind |-> "dir", size |-> 4, id |-> id, target |-> <<>>]
File(id, n) == [kind |-> "file", size |-> n, id |-> id, target |-> <<>>]
\* lstat of a symbolic link reports the link itself: its size is the length
\* of the target path it stores
Link(id, t) == [kind |-> "symlink", size |-> Len(t), id |-> id, target |-> t]

FSNodes ==
  [n \in {<<>>} |-> Dir(0)]
  @@ (<< <<"a">> >> :> File(1, 1))
  @@ (<< <<"w">> >> :> Dir(2))
  @@ (<< <<"w">>, <<"a">> >> :> File(3, 2))
  @@ (<< <<"w">>, <<"p">> >> :> Dir(4))
  @@ (<< <<"w">>, <<"p">>, IndexHtml >> :> File(5, 2))
  @@ (<< <<"w">>, <<"p">>, <<"a">> >> :> File(6, 3))
  @@ (<< <<"w">>, <<"p">>, <<".", "a">> >> :> File(7, 3))
  @@ (<< <<"w">>, <<"p">>, <<".", "a", ".", "b", "r">> >> :> File(8, 1))
  @@ (<< <<"w">>, <<"p">>, <<".", "a", ".", "g", "z">> >> :> File(9, 2))
  @@ (<< <<"w">>, <<"p">>, <<"a", "a">> >> :> Dir(10))
  @@ (<< <<"w">>, <<"p">>, <<"a", "a">>, IndexHtml >> :> File(11, 2))
  @@ (<< <<"w">>, <<"p">>, <<"a", "a">>, <<"a">> >> :> File(12, 1))
  @@ (<< <<"w">>, <<"p">>, <<"a", ".">> >> :> File(13, 0))
  @@ (<< <<"w">>, <<"p">>, <<"a", "a", "a">> >> :> Link(14, <<"a">>))
  @@ (<< <<"w">>, <<"p">>, <<"a", ".", "a">> >> :> Dir(15))
  @@ (<< <<"w">>, <<"p">>, <<"a", ".", "a">>, IndexHtml >> :> Dir(16))
  @@ (<< <<"w">>, <<"p">>, <<".", "a", "a">> >> :> Dir(17))
  @@ (<< <<"w">>, <<"p">>, IndexHtml \o <<".", "b", "r">> >> :> File(18, 1))
  @@ (<< <<"w">>, <<"p">>, IndexHtml \o <<".", "g", "z">> >> :> File(19, 3))
  @@ (<< <<"w">>, <<"p">>, <<"a", ".", "g", "z">> >> :> File(20, 1))

NoNode == << <<"<no entry>">> >>
IsDirNode(n) == n \in DOMAIN FSNodes /\ FSNodes[n].kind = "dir"

RECURSIVE Walk(_, _)
\* name resolution from directory cur: every component but the last must be
\* a directory; ".." is the parent and "." the directory itself
Walk(segs, cur) ==
  IF segs = <<>> THEN cur
  ELSE IF ~IsDirNode(cur) THEN NoNode
  ELSE LET seg == Head(segs)
       IN IF seg = <<>> \/ seg = <<".">> THEN Walk(Tail(segs), cur)
          ELSE IF seg = <<".", ".">>
          THEN Walk(Tail(segs),
                    IF cur = <<>> THEN cur ELSE SubSeq(cur, 1, Len(cur) - 1))
          ELSE Walk(Tail(segs), Append(cur, seg))

\* the node a path string names, without following a final symbolic link
NodeOf(p) ==
  IF p = <<>> THEN NoNode
  ELSE LET n == Walk(SplitOn(p, "/"), IF p[1] = "/" THEN <<>> ELSE Cwd)
       IN IF n \notin DOMAIN FSNodes THEN NoNode
          ELSE IF p[Len(p)] = "/" /\ ~IsDirNode(n) THEN NoNode
          ELSE n

NoStats == [kind |-> "none", size |-> 0, id |-> 0, target |-> <<>>]

getStatsFollowingLinks(p) ==
  LET n == NodeOf(p)
  IN IF n = NoNode THEN NoStats
     ELSE IF FSNodes[n].kind = "symlink"
     THEN FSNodes[Append(SubSeq(n, 1, Len(n) - 1), FSNodes[n].target)]
     ELSE FSNodes[n]
\* getStats: lstatSync(path), undefined when it throws
getStats(p) == IF NodeOf(p) = NoNode THEN NoStats ELSE FSNodes[NodeOf(p)]

\* the bytes of a regular file: byte i of file id is 10 * id + i
Content(st) == [i \in 1..st.size |-> 10 * st.id + (i - 1)]

\* createReadStream(path) opens the file a final symbolic link points to
ReadFile(p) ==
  LET st == getStatsFollowingLinks(p)
  IN IF st.kind = "file" THEN Content(st) ELSE <<>>

(***************************************************************************)
(* Content type (getMimeType of ./mime) and the compressible types.        *)
(***************************************************************************)
NoMime == "<undefined>"
IsAlnum(c) == c \notin {"/", "\\", "."}

\* the extension matched by /\.([a-zA-Z0-9]+?)$/, <<>> when nothing matches
Ext(p) ==
  LET dots == {i \in 1..(Len(p) - 1) :
                 p[i] = "." /\ \A k \in (i + 1)..Len(p) : IsAlnum(p[k])}
  IN IF dots = {} THEN <<>>
     ELSE LET i == CHOOSE j \in dots : \A k \in dots : k <= j
          IN SubSeq(p, i + 1, Len(p))

\* the lookup table of the fixture's extensions
getMimeType(p) ==
  CASE Ext(p) = <<"h", "t", "m", "l">> -> "text/html; charset=utf-8"
    [] Ext(p) = <<"a">> -> "image/png"
    [] OTHER -> NoMime

\* COMPRESSIBLE_CONTENT_TYPE_REGEX.test(mimeType), on the fixture's types
COMPRESSIBLE_CONTENT_TYPE_REGEX(m) ==
  m \in {"text/html; charset=utf-8", "text/plain; charset=utf-8"}

\* ENCODINGS and the order of its keys
ENCODINGS ==
  [br |-> <<".", "b", "r">>, zstd |-> <<".", "z", "s", "t">>,
   gzip |-> <<".", "g", "z">>]
ReversedKeys == <<"gzip", "zstd", "br">>
ENCODINGS_ORDERED_KEYS == <<"br", "zstd", "gzip">>

(***************************************************************************)
(* Headers: a function from the names that were set to their values.       *)
(***************************************************************************)
NoHeaders == [n \in {} |-> 0]
HSet(h, name, v) == [x \in DOMAIN h \cup {name} |-> IF x = name THEN v ELSE h[x]]
Has(h, name) == name \in DOMAIN h

(***************************************************************************)
(* Range header values and their parsing (lines 163-165).                  *)
(***************************************************************************)
NumStr == <<"0", "1", "2", "3", "4", "5", "6", "7", "8", "9">>
Num(n) == <<NumStr[n + 1]>>
IsNumTok(t) == \E n \in 1..Len(NumStr) : NumStr[n] = t
NumOf(t) == (CHOOSE n \in 1..Len(NumStr) : NumStr[n] = t) - 1

\* one side of a range: nothing, a number, or something that is no number
RangeParts == {<<>>, <<"x">>} \cup {Num(n) : n \in 0..MaxRangeNum}
\* "bytes=<start>-<end>", and the same followed by a second range
RangeHeaders ==
  {<<"bytes=">> \o a \o <<"-">> \o b : a \in RangeParts, b \in RangeParts}
  \cup {<<"bytes=">> \o Num(a) \o <<"-">> \o Num(b) \o <<",">> \o Num(b + 1)
          \o <<"-">> \o Num(MaxRangeNum) : a \in {0}, b \in 0..(MaxRangeNum - 1)}

\* range.replace(/bytes=/, ""): the first occurrence is removed
ReplaceBytesEq(r) ==
  IF \E i \in 1..Len(r) : r[i] = "bytes="
  THEN LET i == CHOOSE j \in 1..Len(r) :
                   r[j] = "bytes=" /\ \A k \in 1..(j - 1) : r[k] # "bytes="
       IN SubSeq(r, 1, i - 1) \o SubSeq(r, i + 1, Len(r))
  ELSE r

\* the last two pieces instead of the first two
SplitLast2(s) ==
  LET all == SplitOn(s, "-")
  IN IF Len(all) > 2 THEN SubSeq(all, Len(all) - 1, Len(all)) ELSE all

\* s.split("-", 2): at most the first two pieces
Split2(s) ==
  LET all == SplitOn(s, "-")
  IN IF Len(all) > 2 THEN SubSeq(all, 1, 2) ELSE all

\* parseInt(s, 10): the leading number, NaN when there is none (also for
\* undefined, when split gave one piece only)
parseInt(parts, k) ==
  IF k <= Len(parts) /\ parts[k] # <<>> /\ IsNumTok(parts[k][1])
  THEN [nan |-> FALSE, val |-> NumOf(parts[k][1])]
  ELSE [nan |-> TRUE, val |-> 0]

\* x || d: NaN and 0 are both falsy
OrElse(x, d) == IF x.nan \/ x.val = 0 THEN d ELSE x.val

(***************************************************************************)
(* Accept-Encoding header values (lines 123-128).                          *)
(***************************************************************************)
\* items as they stand between the commas: the first bare, the others
\* after a space ("gzip, br")
Spaced(t) == CASE t = "br" -> " br" [] t = "zstd" -> " zstd" [] OTHER -> " gzip"
trim(t) ==
  CASE t = " br" -> "br" [] t = " zstd" -> "zstd" [] t = " gzip" -> "gzip"
    [] OTHER -> t
EncodingLists ==
  {q \in Str({"br", "zstd", "gzip"}, MaxAccept) :
     \A i, j \in 1..Len(q) : i # j => q[i] # q[j]}
\* header.split(","), for every order of every choice of encodings
AcceptEncodingHeaders ==
  {[i \in 1..Len(q) |-> IF i = 1 THEN q[i] ELSE Spaced(q[i])] :
     q \in EncodingLists}
\* new Set(header?.split(",").map(trim)): empty when the header is absent
acceptEncodingSet(h) ==
  IF h = NoStr THEN {} ELSE {trim(h[i]) : i \in 1..Len(h)}

(***************************************************************************)
(* Configuration, requests and results.                                    *)
(***************************************************************************)
\* rewriteRequestPath functions a configuration may carry
RewriteFns == {"up", "sub"}
Rewrite(f, p) ==
  IF f = "up" THEN <<"/", ".", ".">> \o p ELSE <<"/", "a", "a">> \o p

Options ==
  [root : {<<>>, <<"p">>},
   path : {NoStr, <<"a">>},
   index : {NoStr, <<"a">>},
   precompressed : BOOLEAN,
   rewriteRequestPath : {"none"} \cup RewriteFns,
   onNotFound : {"default", "custom"}]

Methods == {"GET", "HEAD", "OPTIONS"}
Envs == {"env"}

NoReq == [url |-> NoStr, method |-> "?", range |-> Unread,
          acceptEncoding |-> Unread]
NoBody == [type |-> "null", text |-> "", path |-> NoStr, ranged |-> FALSE,
           start |-> 0, end |-> 0]
TextBody(t) == [NoBody EXCEPT !.type = "text", !.text = t]
StreamBody(p, ranged, s, e) ==
  [NoBody EXCEPT !.type = "stream", !.path = p, !.ranged = ranged,
                 !.start = s, !.end = e]

NoResult == [kind |-> "none", by |-> "", status |-> 0, headers |-> NoHeaders,
             body |-> NoBody, error |-> "", nfReq |-> NoReq, nfEnv |-> ""]
Response(b, h, st) ==
  [NoResult EXCEPT !.kind = "response", !.by = "handler", !.status = st,
                   !.headers = h, !.body = b]
Thrown(err) == [NoResult EXCEPT !.kind = "throw", !.by = "handler", !.error = err]

onNotFoundWithoutEnv(opts, r, e) ==
  IF opts.onNotFound = "custom"
  THEN [NoResult EXCEPT !.kind = "response", !.by = "options.onNotFound",
                        !.nfReq = r]
  ELSE [NoResult EXCEPT !.kind = "response", !.by = "defaultNotFound",
                        !.status = 404, !.body = TextBody("Not Found"),
                        !.nfReq = r]
\* the not-found collaborator called with (r, e): options.onNotFound, or the
\* default of lines 67-69
onNotFound(opts, r, e) ==
  IF opts.onNotFound = "custom"
  THEN [NoResult EXCEPT !.kind = "response", !.by = "options.onNotFound",
                        !.nfReq = r, !.nfEnv = e]
  ELSE [NoResult EXCEPT !.kind = "response", !.by = "defaultNotFound",
                        !.status = 404, !.body = TextBody("Not Found"),
                        !.nfReq = r, !.nfEnv = e]

\* what reading the body to its end delivers
BodyBytes(b) ==
  IF b.type # "stream" THEN <<>>
  ELSE LET c == ReadFile(b.path)
       IN IF b.ranged
          THEN SubSeq(c, b.start + 1, IF b.end + 1 < Len(c) THEN b.end + 1 ELSE Len(c))
          ELSE c

\* a createReadStream that takes any start and end
createReadStreamAcceptsAll(s, e) == FALSE

\* createReadStream(path, {start, end}) throws RangeError for an end below 0
\* and for a start above the end
createReadStreamThrows(s, e) == e < 0 \/ s > e

(***************************************************************************)
(* The requests of the model: any pathname as a GET without headers, and,  *)
(* for the short pathnames written without escapes, every method with      *)
(* every Range header, and GET and HEAD with every Accept-Encoding header. *)
(***************************************************************************)
Request(u, m, r, ae) ==
  [url |-> u, method |-> m, range |-> r, acceptEncoding |-> ae]
IsHeaderPath(u) ==
  /\ Len(u) <= MaxHeaderPathLen + 1
  /\ \A i \in 1..Len(u) : u[i] \in {"/", ".", "a"}
RequestsFor(u) ==
  {Request(u, "GET", NoStr, NoStr)}
  \cup (IF IsHeaderPath(u)
        THEN {Request(u, "GET", r, NoStr) : r \in RangeHeaders \cup {<<>>}}
             \cup {Request(u, m, r, NoStr) :
                     m \in {"HEAD", "OPTIONS"},
                     r \in {NoStr, <<"bytes=">> \o Num(0) \o <<"-">> \o Num(1)}}
             \cup {Request(u, m, NoStr, ae) :
                     m \in {"GET", "HEAD"}, ae \in AcceptEncodingHeaders}
        ELSE {})

(***************************************************************************)
(* State.                                                                  *)
(***************************************************************************)
VARIABLES
  options,    \* the ServeStaticOptions the handler was built with
  pc,         \* idle, serve (the target is resolved), done (the call ended)
  req, env,   \* the arguments of the call; the method and the headers of
              \* req are shown from the step that reads them
  filename,   \* line 80
  path,       \* line 95
  stats,      \* line 102
  result,     \* what the call returned or threw
  fileStream, \* the ReadStream of lines 156 / 171
  bodyStream, \* the ReadableStream of createStreamBody
  consumer,   \* what the reader of the response body has done
  calls,      \* concurrent calls of the handler: arguments, position, result
  locals,     \* the variables declared inside the handler, per activation
  queryKey,   \* the query the client cache is watched for
  cache,      \* its cached value (queryClient.getQueryData)
  invalidated,\* whether it is marked for refetch
  fetching,   \* whether a fetch of the query is in flight
  mutations,  \* the mutations of the hooks on that query
  created,    \* the number of resources the server has created on CREATE
  effects,    \* the runs of the SSE effect of each hook
  debounceTimer,  \* let debounceTimer of the effect: the uri its callback
                  \* will read, when a timeout is pending
  reading,        \* the uris with a READ of the timer callback in flight
  pendingUpdates, \* the uris of messages not yet followed by read and upsert
  received        \* the number of SSE messages received

vars ==
  <<options, pc, req, env, filename, path, stats, result, fileStream,
    bodyStream, consumer, calls, locals, queryKey, cache, invalidated,
    fetching, mutations, created, effects, debounceTimer, reading, pendingUpdates,
    received>>
streamVars == <<fileStream, bodyStream, consumer>>
concVars == <<calls, locals>>
cacheVars == <<queryKey, cache, invalidated, fetching, mutations, created>>
debounceVars == <<debounceTimer, reading, pendingUpdates, received>>
hookVars == <<cacheVars, effects, debounceVars>>
\* what the steps of a single call leave alone
outsideHandler == <<concVars, hookVars>>

\* a cached value: undefined, the array of useAppPreferences, or the
\* {items, totalCount} of useTodoSettings (an array has no totalCount)
Undefined ==
  [defined |-> FALSE, items |-> <<>>, hasTotal |-> FALSE, totalCount |-> 0]
\* two mutations in flight at a time
MutationIds == {1, 2}
NoMutation ==
  [state |-> "idle", hook |-> "", arg |-> "", context |-> Undefined,
   call |-> ""]
\* the hooks with an SSE effect
SseHooks == {"useAppPreferences", "useTodoSettings"}

\* no timeout pending
NoTimer == ""
\* the uris the watch endpoint of each hook reports
WatchedUris ==
  [appPreferences |-> {"pref1", "pref2"}, todoSettings |-> {"s1", "s2"}]

\* two calls in flight at a time
CallIds == {1, 2}
NoCall ==
  [pc |-> "idle", req |-> NoReq, env |-> "", cDefined |-> TRUE,
   result |-> NoResult]
\* let filename (line 80), let path (line 95), let stats (line 102)
NoLocals == [filename |-> NoStr, path |-> NoStr, stats |-> NoStats]

\* no stream yet
NoFileStream ==
  [state |-> "none", pos |-> 0, chunks |-> <<>>, eisdir |-> FALSE,
   errored |-> FALSE]
NoBodyStream == [state |-> "none", closeRequested |-> FALSE, queue |-> <<>>]
NoConsumer == [started |-> FALSE, cancelled |-> FALSE, delivered |-> <<>>]

Init ==
  /\ options \in Options
  /\ pc = "idle"
  /\ req = NoReq
  /\ env = ""
  /\ filename = NoStr
  /\ path = NoStr
  /\ stats = NoStats
  /\ result = NoResult
  /\ fileStream = NoFileStream
  /\ bodyStream = NoBodyStream
  /\ consumer = NoConsumer
  /\ calls = [i \in CallIds |-> NoCall]
  /\ locals = [i \in CallIds |-> NoLocals]
  /\ queryKey = "none"
  /\ cache = Undefined
  /\ invalidated = FALSE
  /\ fetching = FALSE
  /\ mutations = [id \in MutationIds |-> NoMutation]
  /\ created = 0
  /\ effects = [h \in SseHooks |-> <<>>]
  /\ debounceTimer = NoTimer
  /\ reading = {}
  /\ pendingUpdates = {}
  /\ received = 0

TraversalTestInputRaw(u) == u
\* the string the test of line 87 is applied to: the decoded pathname
TraversalTestInput(u) == decodeURIComponent(u)

FilenameFromUrl(u) ==
  IF DecodeThrows(u) THEN NoStr
  ELSE IF TraversalRegexTest(TraversalTestInput(u)) THEN NoStr
  ELSE decodeURIComponent(u)
\* lines 82-93: the filename, NoStr when the catch block is reached
Filename(u) ==
  IF options.path # NoStr THEN options.path
  ELSE IF DecodeThrows(u) THEN NoStr
  ELSE IF TraversalRegexTest(TraversalTestInput(u)) THEN NoStr
  ELSE decodeURIComponent(u)

CallsRewrite == options.path = NoStr /\ options.rewriteRequestPath # "none"

\* the second argument of join at lines 97-99
JoinArg(f) ==
  IF CallsRewrite THEN Rewrite(options.rewriteRequestPath, f) ELSE f

indexFile == IF options.index = NoStr THEN IndexHtml ELSE options.index

WithoutIndex(p) == p
\* lines 104-108: a directory is replaced by its index file, once
WithIndex(p) ==
  IF getStats(p).kind = "dir" THEN join(p, indexFile) ELSE p

\* lines 95-108
ResolvedPath(f) == WithIndex(join(options.root, JoinArg(f)))

\* lines 77-112: the call; filename, path and stats, or the not-found
\* response.  The argument c of line 98 is declared nowhere in the module:
\* evaluating it throws ReferenceError unless the environment happens to
\* define a global c (cDefined).
Handle(u, e, cDefined) ==
  /\ pc = "idle"
  /\ cDefined \/ CallsRewrite
  /\ LET r == [NoReq EXCEPT !.url = u]
         f == Filename(u)
     IN /\ req' = r
        /\ env' = e
        /\ filename' = f
        /\ IF f = NoStr
           THEN /\ result' = onNotFound(options, r, e)
                /\ pc' = "done"
                /\ UNCHANGED <<path, stats>>
           ELSE IF CallsRewrite /\ ~cDefined
           THEN /\ result' = Thrown("ReferenceError")
                /\ pc' = "done"
                /\ UNCHANGED <<path, stats>>
           ELSE /\ path' = ResolvedPath(f)
                /\ stats' = getStats(ResolvedPath(f))
                /\ IF getStats(ResolvedPath(f)) = NoStats
                   THEN /\ result' = onNotFound(options, r, e)
                        /\ pc' = "done"
                   ELSE /\ result' = result
                        /\ pc' = "serve"
  /\ UNCHANGED <<options, streamVars, outsideHandler>>

RECURSIVE FirstEncoding(_, _, _)
\* lines 130-142: the first key, in table order from k on, that the client
\* accepts and whose file exists; "" when there is none
FirstEncoding(k, accepted, p) ==
  IF k > Len(ENCODINGS_ORDERED_KEYS) THEN ""
  ELSE LET encoding == ENCODINGS_ORDERED_KEYS[k]
       IN IF encoding \in accepted /\ getStats(p \o ENCODINGS[encoding]) # NoStats
          THEN encoding
          ELSE FirstEncoding(k + 1, accepted, p)

NegotiatesWithoutFlag(p) ==
  getMimeType(p) = NoMime \/ COMPRESSIBLE_CONTENT_TYPE_REGEX(getMimeType(p))
\* lines 119-122
Negotiates(p) ==
  options.precompressed
  /\ (getMimeType(p) = NoMime \/ COMPRESSIBLE_CONTENT_TYPE_REGEX(getMimeType(p)))

\* the encoding chosen for path p and Accept-Encoding header ae
Encoding(p, ae) ==
  IF Negotiates(p) THEN FirstEncoding(1, acceptEncodingSet(ae), p) ELSE ""

\* line 117
ContentType(p) ==
  IF getMimeType(p) = NoMime THEN "application/octet-stream" ELSE getMimeType(p)

\* the path and the headers after lines 114-143
ServedPath(p, ae) ==
  IF Encoding(p, ae) = "" THEN p ELSE p \o ENCODINGS[Encoding(p, ae)]
NegotiatedHeaders(p, ae) ==
  LET h0 == HSet(NoHeaders, "Content-Type", ContentType(p))
  IN IF Encoding(p, ae) = "" THEN h0
     ELSE HSet(HSet(h0, "Content-Encoding", Encoding(p, ae)),
               "Vary", "Accept-Encoding")

\* lines 163-168
RangeStart(r) == OrElse(parseInt(Split2(ReplaceBytesEq(r)), 1), 0)
RangeEndParsed(r, size) ==
  OrElse(parseInt(Split2(ReplaceBytesEq(r)), 2), size - 1)
NeedsClamp(start, end, size) == size < end - start + 1
RangeEnd(r, size) ==
  IF NeedsClamp(RangeStart(r), RangeEndParsed(r, size), size)
  THEN size - 1
  ELSE RangeEndParsed(r, size)

IsHeadOnly(m) == m = "HEAD"
\* line 147
IsHeadersOnly(m) == m = "HEAD" \/ m = "OPTIONS"

\* lines 145-176: the response for served path p with stats st
ResponseFor(rq, p, st, h) ==
  LET size == st.size
      hl == HSet(h, "Content-Length", size)
  IN IF IsHeadersOnly(rq.method)
     THEN Response(NoBody, hl, 200)
     ELSE IF rq.range = NoStr \/ rq.range = <<>>
     THEN Response(StreamBody(p, FALSE, 0, 0), hl, 200)
     ELSE LET start == RangeStart(rq.range)
              end == RangeEnd(rq.range, size)
              chunksize == end - start + 1
              h1 == HSet(HSet(h, "Accept-Ranges", "bytes"),
                         "Date", <<"birthtime", st.id>>)
              h2 == HSet(HSet(h1, "Content-Length", chunksize),
                         "Content-Range",
                         [start |-> start, end |-> end, size |-> st.size])
          IN IF createReadStreamThrows(start, end)
             THEN Thrown("RangeError")
             ELSE Response(StreamBody(p, TRUE, start, end), h2, 206)

\* createReadStream (lines 156, 171): the ReadStream, nothing read yet, with
\* the chunks it has to deliver; reading a directory fails (EISDIR)
createReadStream(b) ==
  [state |-> "open", pos |-> 0, chunks |-> BodyBytes(b),
   eisdir |-> getStatsFollowingLinks(b.path).kind = "dir",
   errored |-> FALSE]

\* createStreamBody, lines 29-48: new ReadableStream({start, cancel}); start
\* runs in the constructor and attaches the three listeners, which puts the
\* ReadStream in flowing mode
createStreamBody ==
  [state |-> "readable", closeRequested |-> FALSE, queue |-> <<>>]

\* lines 114-176: content type, precompressed variant, response
Serve(rq) ==
  /\ pc = "serve"
  /\ req' = rq
  /\ LET p == ServedPath(path, rq.acceptEncoding)
         st == IF p = path THEN stats ELSE getStats(p)
         res == ResponseFor(rq, p, st,
                            NegotiatedHeaders(path, rq.acceptEncoding))
     IN /\ path' = p
        /\ stats' = st
        /\ result' = res
        /\ IF res.body.type = "stream"
           THEN /\ fileStream' = createReadStream(res.body)
                /\ bodyStream' = createStreamBody
           ELSE UNCHANGED <<fileStream, bodyStream>>
  /\ pc' = "done"
  /\ UNCHANGED <<options, env, filename, consumer, outsideHandler>>

\* the call has returned and its response is over (a file stream, if one
\* was opened, is closed); the handler keeps nothing between calls
Return ==
  /\ pc = "done"
  /\ fileStream.state \in {"none", "closed"}
  /\ pc' = "idle"
  /\ req' = NoReq
  /\ env' = ""
  /\ filename' = NoStr
  /\ path' = NoStr
  /\ stats' = NoStats
  /\ result' = NoResult
  /\ fileStream' = NoFileStream
  /\ bodyStream' = NoBodyStream
  /\ consumer' = NoConsumer
  /\ UNCHANGED <<options, outsideHandler>>

\* a call with any pathname
Call ==
  /\ pc = "idle"
  /\ \E u \in URLPathnames, e \in Envs, cDefined \in BOOLEAN :
        Handle(u, e, cDefined)

\* the rest of the call, for any request with the pathname of the call
Answer ==
  /\ pc = "serve"
  /\ \E rq \in RequestsFor(req.url) : Serve(rq)

Next == Call \/ Answer \/ Return

Spec == Init /\ [][Next]_vars

(***************************************************************************)
(* The life of a response body (createStreamBody, lines 29-48): the        *)
(* ReadStream emits data, end and error; the consumer of the response      *)
(* reads or cancels.  One byte of the fixture stands for one chunk.        *)
(***************************************************************************)
handlerVars == <<options, pc, req, env, filename, path, stats, result>>

\* the chunks the ReadStream has to deliver
Chunks == fileStream.chunks
IsDirectoryTarget == fileStream.eisdir

\* controller.enqueue(chunk), line 33
enqueue(b, chunk) ==
  IF b.state = "readable" /\ ~b.closeRequested
  THEN [b EXCEPT !.queue = Append(@, chunk)]
  ELSE b
\* controller.close(), line 39: the stream closes once its queue is drained
close(b) ==
  IF b.state = "readable" /\ ~b.closeRequested
  THEN IF b.queue = <<>> THEN [b EXCEPT !.state = "closed"]
       ELSE [b EXCEPT !.closeRequested = TRUE]
  ELSE b
\* an error listener that keeps the error to itself
errorSwallowed(b) == b
\* controller.error(err), line 36
error(b) ==
  IF b.state = "readable"
  THEN [state |-> "errored", closeRequested |-> FALSE, queue |-> <<>>]
  ELSE b
\* stream.destroy(): the descriptor is released a step later
destroy(f) ==
  IF f.state \in {"open", "ended"} THEN [f EXCEPT !.state = "destroyed"] ELSE f

autoCloseOff == FALSE
\* createReadStream is called without autoClose (lines 156, 171): the
\* ReadStream destroys itself after end and after error
autoClose == TRUE

cancelWithoutDestroy(f) == f
\* the cancel hook, lines 43-45
cancel(f) == destroy(f)

\* stream.on("data"), lines 32-34: the next chunk is read and enqueued,
\* whether or not the consumer has asked for it
Data ==
  /\ pc = "done" /\ fileStream.state = "open" /\ ~IsDirectoryTarget
  /\ fileStream.pos < Len(Chunks)
  /\ fileStream' = [fileStream EXCEPT !.pos = @ + 1]
  /\ bodyStream' = enqueue(bodyStream, Chunks[fileStream.pos + 1])
  /\ UNCHANGED <<handlerVars, consumer, outsideHandler>>

\* stream.on("end"), lines 38-40
End ==
  /\ pc = "done" /\ fileStream.state = "open" /\ ~IsDirectoryTarget
  /\ fileStream.pos = Len(Chunks)
  /\ bodyStream' = close(bodyStream)
  /\ fileStream' = IF autoClose THEN destroy(fileStream)
                   ELSE [fileStream EXCEPT !.state = "ended"]
  /\ UNCHANGED <<handlerVars, consumer, outsideHandler>>

\* stream.on("error"), lines 35-37: a read fails (always, for a directory)
Error ==
  /\ pc = "done" /\ fileStream.state = "open"
  /\ bodyStream' = error(bodyStream)
  /\ fileStream' = [(IF autoClose THEN destroy(fileStream) ELSE fileStream)
                      EXCEPT !.errored = TRUE]
  /\ UNCHANGED <<handlerVars, consumer, outsideHandler>>

\* the descriptor of a destroyed ReadStream is closed
FdClosed ==
  /\ pc = "done" /\ fileStream.state = "destroyed"
  /\ fileStream' = [fileStream EXCEPT !.state = "closed"]
  /\ UNCHANGED <<handlerVars, bodyStream, consumer, outsideHandler>>

\* the consumer reads: it takes the chunk at the head of the queue, or
\* waits for one when the queue is empty
Read ==
  /\ pc = "done" /\ bodyStream.state = "readable" /\ ~consumer.cancelled
  /\ IF bodyStream.queue = <<>>
     THEN /\ ~consumer.started
          /\ consumer' = [consumer EXCEPT !.started = TRUE]
          /\ UNCHANGED bodyStream
     ELSE /\ consumer' = [consumer EXCEPT !.started = TRUE,
                             !.delivered = Append(@, Head(bodyStream.queue))]
          /\ bodyStream' =
               IF bodyStream.closeRequested /\ Len(bodyStream.queue) = 1
               THEN [bodyStream EXCEPT !.state = "closed", !.queue = <<>>]
               ELSE [bodyStream EXCEPT !.queue = Tail(@)]
  /\ UNCHANGED <<handlerVars, fileStream, outsideHandler>>

\* the consumer cancels (client disconnect): the queue is dropped and the
\* cancel hook runs
Cancel ==
  /\ pc = "done" /\ bodyStream.state = "readable"
  /\ consumer' = [consumer EXCEPT !.cancelled = TRUE]
  /\ bodyStream' = [state |-> "closed", closeRequested |-> FALSE,
                    queue |-> <<>>]
  /\ fileStream' = cancel(fileStream)
  /\ UNCHANGED <<handlerVars, outsideHandler>>

\* the configurations of the streaming runs
StreamOptions ==
  {o \in Options : /\ o.root = <<"p">> /\ o.path = NoStr /\ o.index = NoStr
                   /\ o.rewriteRequestPath = "none"
                   /\ o.onNotFound = "default"}
StreamInit == Init /\ options \in StreamOptions
StreamNext ==
  Call \/ Answer \/ Return \/ Data \/ End \/ Error \/ FdClosed \/ Read \/ Cancel

\* the events of the ReadStream are delivered by the event loop; reads and
\* cancellation are up to the consumer and errors up to the disk
StreamSpec ==
  /\ StreamInit /\ [][StreamNext]_vars
  /\ WF_vars(Data) /\ WF_vars(End) /\ WF_vars(Error /\ IsDirectoryTarget)
  /\ WF_vars(FdClosed)

(***************************************************************************)
(* Concurrent calls of one handler (lines 59-78).  options, root,          *)
(* optionPath and onNotFound belong to the closure and are shared by all   *)
(* calls; filename, path, stats and headers are declared inside the        *)
(* handler, so that each activation has its own.  The handler awaits       *)
(* nothing between line 79 and its return but onNotFound; the steps here   *)
(* let a call be overtaken between its lookup and its response as well,    *)
(* which covers every order the event loop can produce.                    *)
(***************************************************************************)
SharedSlot(i) == 1
\* the activation record of call i: its own
Slot(i) == i

ConcPaths ==
  {<<"/">>, <<"/", "a">>, <<"/", "a", "a">>, <<"/", ".", "a">>, <<"/", "%">>}
ConcRequests ==
  {Request(u, "GET", r, ae) :
     u \in ConcPaths,
     r \in {NoStr, <<"bytes=">> \o Num(0) \o <<"-">> \o Num(1)},
     ae \in {NoStr, <<"br">>}}
ConcOptions ==
  {o \in Options : /\ o.root = <<"p">> /\ o.path = NoStr /\ o.index = NoStr
                   /\ o.onNotFound = "default"}

\* lines 77-176 for one call on its own
AloneResult(rq, e, cDefined) ==
  LET f == Filename(rq.url)
      p0 == ResolvedPath(f)
      p == ServedPath(p0, rq.acceptEncoding)
  IN IF f = NoStr THEN onNotFound(options, rq, e)
     ELSE IF CallsRewrite /\ ~cDefined THEN Thrown("ReferenceError")
     ELSE IF getStats(p0) = NoStats THEN onNotFound(options, rq, e)
     ELSE ResponseFor(rq, p, getStats(p),
                      NegotiatedHeaders(p0, rq.acceptEncoding))

\* lines 77-112 of call i
Begin(i, rq, e, cDefined) ==
  /\ calls[i].pc = "idle"
  /\ LET f == Filename(rq.url)
         c == [NoCall EXCEPT !.req = rq, !.env = e, !.cDefined = cDefined]
         done(res) == [c EXCEPT !.pc = "done", !.result = res]
     IN IF f = NoStr
        THEN /\ calls' = [calls EXCEPT ![i] = done(onNotFound(options, rq, e))]
             /\ UNCHANGED locals
        ELSE IF CallsRewrite /\ ~cDefined
        THEN /\ calls' = [calls EXCEPT ![i] = done(Thrown("ReferenceError"))]
             /\ locals' = [locals EXCEPT ![Slot(i)].filename = f]
        ELSE /\ locals' = [locals EXCEPT ![Slot(i)] =
                             [filename |-> f, path |-> ResolvedPath(f),
                              stats |-> getStats(ResolvedPath(f))]]
             /\ calls' = [calls EXCEPT ![i] =
                            IF getStats(ResolvedPath(f)) = NoStats
                            THEN done(onNotFound(options, rq, e))
                            ELSE [c EXCEPT !.pc = "serve"]]
  /\ UNCHANGED <<handlerVars, streamVars, hookVars>>

\* lines 114-176 of call i
Finish(i) ==
  /\ calls[i].pc = "serve"
  /\ LET l == locals[Slot(i)]
         rq == calls[i].req
         p == ServedPath(l.path, rq.acceptEncoding)
         st == IF p = l.path THEN l.stats ELSE getStats(p)
     IN /\ locals' = [locals EXCEPT ![Slot(i)].path = p, ![Slot(i)].stats = st]
        /\ calls' = [calls EXCEPT ![i].pc = "done",
                       ![i].result =
                         ResponseFor(rq, p, st,
                                     NegotiatedHeaders(l.path, rq.acceptEncoding))]
  /\ UNCHANGED <<handlerVars, streamVars, hookVars>>

\* call i has returned and its activation is gone
Forget(i) ==
  /\ calls[i].pc = "done"
  /\ calls' = [calls EXCEPT ![i] = NoCall]
  /\ locals' = [locals EXCEPT ![Slot(i)] = NoLocals]
  /\ UNCHANGED <<handlerVars, streamVars, hookVars>>

BeginCall ==
  \E i \in CallIds, rq \in ConcRequests, cDefined \in BOOLEAN :
     Begin(i, rq, "env", cDefined)
FinishCall == \E i \in CallIds : Finish(i)
ForgetCall == \E i \in CallIds : Forget(i)

ConcInit == Init /\ options \in ConcOptions
ConcNext == BeginCall \/ FinishCall \/ ForgetCall
ConcSpec == ConcInit /\ [][ConcNext]_vars

(***************************************************************************)
(* The client's query cache and the optimistic mutations                   *)
(* (part_001 lines 225-299: useSetSelectedTheme; part_002 lines 171-221:   *)
(* useCreateTodoSetting; lines 261-300: useDeleteTodoSetting), with the    *)
(* writes of the SSE message handlers and of the query's refetch.          *)
(***************************************************************************)
\* items a cached list holds at most
MaxItems == 2

QueryKeys == {"appPreferences", "todoSettings"}
MutationHooks ==
  [appPreferences |-> {"useSetSelectedTheme"},
   todoSettings |-> {"useCreateTodoSetting", "useDeleteTodoSetting"}]
\* what mutate() is called with
MutationArgs ==
  [useSetSelectedTheme |-> {"t1", "t2"},
   useCreateTodoSetting |-> {"new"},
   useDeleteTodoSetting |-> {"s1", "s2"}]

Item(uri, theme) == [uri |-> uri, selectedThemeUri |-> theme]
ArrayOf(items) ==
  [defined |-> TRUE, items |-> items, hasTotal |-> FALSE, totalCount |-> 0]
ListOf(items, n) ==
  [defined |-> TRUE, items |-> items, hasTotal |-> TRUE, totalCount |-> n]

\* what the server sends for a READ of the watched resource
Resources ==
  [appPreferences |-> {Item("pref1", "t1")},
   todoSettings |-> {Item("s1", "")}]
\* what the server sends for a READ of a resource it has created
Created == Item("created", "")
\* what the queryFn of the hook resolves to
QueryResults ==
  [appPreferences |-> {ArrayOf(<<>>), ArrayOf(<<Item("pref1", "t1")>>)},
   todoSettings |-> {ListOf(<<>>, 0), ListOf(<<Item("s1", "")>>, 1)}]

\* old.totalCount || 0
TotalOrZero(old) == IF old.hasTotal THEN old.totalCount ELSE 0
\* items.filter(item => item.uri !== uri)
SelectSeq2(items, uri) ==
  LET Keep(item) == item.uri # uri IN SelectSeq(items, Keep)
\* items.findIndex(item => item.uri === uri), 0 when there is none
findIndex(items, uri) ==
  IF \E i \in 1..Len(items) : items[i].uri = uri
  THEN CHOOSE i \in 1..Len(items) :
         items[i].uri = uri /\ \A k \in 1..(i - 1) : items[k].uri # uri
  ELSE 0

\* the updater of onMutate: part_001 lines 264-281, part_002 lines 192-204
\* and 276-284
Optimistic(hook, old, arg) ==
  IF ~old.defined THEN old
  ELSE CASE hook = "useSetSelectedTheme" ->
              IF Len(old.items) > 0
              THEN [old EXCEPT !.items[1].selectedThemeUri = arg]
              ELSE old
         [] hook = "useCreateTodoSetting" ->
              [old EXCEPT !.items = Append(@, Item("temp", "")),
                          !.hasTotal = TRUE,
                          !.totalCount = TotalOrZero(old) + 1]
         [] OTHER ->
              [old EXCEPT !.items = SelectSeq2(@, arg),
                          !.hasTotal = TRUE,
                          !.totalCount = IF TotalOrZero(old) > 0
                                         THEN TotalOrZero(old) - 1 ELSE 0]

KeepCurrent(context, current) == current
\* onError: if (context?.previous...) setQueryData(key, context.previous...)
\* (part_001 lines 288-290, part_002 lines 210-212 and 289-291)
Restore(context, current) == IF context.defined THEN context ELSE current

\* the updater of the SSE message handler: part_001 lines 168-180,
\* part_002 lines 114-127
Upsert(key, old, resource) ==
  IF ~old.defined
  THEN ArrayOf(<<resource>>)
  ELSE IF findIndex(old.items, resource.uri) > 0
  THEN [old EXCEPT !.items[findIndex(old.items, resource.uri)] = resource]
  ELSE [old EXCEPT !.items = Append(@, resource)]

\* a component with the hooks of query key mounts (useQuery, part_001
\* line 90, part_002 line 37): the first fetch starts
useQuery(key) ==
  /\ queryKey = "none"
  /\ queryKey' = key
  /\ fetching' = TRUE
  /\ UNCHANGED <<cache, invalidated, mutations, created>>

\* the queryFn resolves: the first fetch, or the refetch after invalidation
Fetched(v) ==
  /\ queryKey # "none" /\ fetching
  /\ cache' = v
  /\ invalidated' = FALSE
  /\ fetching' = FALSE
  /\ UNCHANGED <<queryKey, mutations, created>>

\* onMutate (part_001 lines 256-285, part_002 lines 186-208, 270-287): a
\* fetch in flight is cancelled, the cached value is kept as context and the
\* updater is applied
onMutate(id, hook, arg) ==
  /\ queryKey # "none" /\ mutations[id].state # "pending"
  /\ hook = "useCreateTodoSetting" => Len(cache.items) < MaxItems
  /\ mutations' = [mutations EXCEPT ![id] =
                     [state |-> "pending", hook |-> hook, arg |-> arg,
                      context |-> cache, call |-> ""]]
  /\ cache' = Optimistic(hook, cache, arg)
  /\ fetching' = FALSE
  /\ UNCHANGED <<queryKey, invalidated, created>>

\* onError (part_001 lines 287-294, part_002 lines 209-216, 288-295)
onError(id) ==
  /\ mutations[id].state = "pending"
  /\ mutations' = [mutations EXCEPT ![id].state = "failed"]
  /\ cache' = Restore(mutations[id].context, cache)
  /\ invalidated' = TRUE
  /\ fetching' = TRUE
  /\ UNCHANGED <<queryKey, created>>

\* onSuccess (part_001 lines 296-298, part_002 lines 217-219, 296-298)
onSuccess(id) ==
  /\ mutations[id].state = "pending"
  /\ mutations' = [mutations EXCEPT ![id].state = "succeeded"]
  /\ UNCHANGED <<queryKey, cache, invalidated, fetching, created>>

\* an SSE message: the resource is read and written into the cache
onmessage(resource) ==
  /\ queryKey # "none"
  /\ findIndex(cache.items, resource.uri) = 0 => Len(cache.items) < MaxItems
  /\ cache' = Upsert(queryKey, cache, resource)
  /\ UNCHANGED <<queryKey, invalidated, fetching, mutations, created>>

outsideCache == <<handlerVars, streamVars, concVars, effects, debounceVars>>
UseQuery == (\E key \in QueryKeys : useQuery(key)) /\ UNCHANGED outsideCache
Fetch ==
  /\ queryKey # "none"
  /\ \E v \in QueryResults[queryKey] : Fetched(v)
  /\ UNCHANGED outsideCache
Mutate ==
  /\ queryKey # "none"
  /\ \E id \in MutationIds, hook \in MutationHooks[queryKey] :
        \E arg \in MutationArgs[hook] : onMutate(id, hook, arg)
  /\ UNCHANGED outsideCache
Fail == (\E id \in MutationIds : onError(id)) /\ UNCHANGED outsideCache
Succeed == (\E id \in MutationIds : onSuccess(id)) /\ UNCHANGED outsideCache
Message ==
  /\ queryKey # "none"
  /\ \E resource \in Resources[queryKey]
                       \cup (IF created > 0 THEN {Created} ELSE {}) :
        onmessage(resource)
  /\ UNCHANGED outsideCache

\* the configuration of the runs that watch the client
DefaultOptions ==
  [root |-> <<>>, path |-> NoStr, index |-> NoStr, precompressed |-> FALSE,
   rewriteRequestPath |-> "none", onNotFound |-> "default"]
MutationInit == Init /\ options = DefaultOptions
MutationNext == UseQuery \/ Fetch \/ Mutate \/ Fail \/ Succeed \/ Message
MutationSpec == MutationInit /\ [][MutationNext]_vars

(***************************************************************************)
(* The SSE effect of useAppPreferences (part_001 lines 121-210) and of     *)
(* useTodoSettings (part_002 lines 67-157): each run of the effect calls   *)
(* setupSSE, which awaits DESCRIBE and then creates the EventSource; the   *)
(* cleanup closes the EventSource the run's variable holds.                *)
(***************************************************************************)
\* runs of the effect per hook (mounts; React's StrictMode of part_001
\* line 59 runs every effect, its cleanup, and the effect again)
MaxMounts == 2

\* let eventSource = null (line 122 / 68); setupSSE() awaits DESCRIBE
NewEffect ==
  [describe |-> "pending", eventSource |-> "null", created |-> 0,
   cleaned |-> FALSE]

\* eventSource?.close()
closeIfSet(es) == IF es = "open" THEN "closed" ELSE es

outsideEffects ==
  <<handlerVars, streamVars, concVars, cacheVars, debounceVars>>

\* the effect runs (lines 121-201 / 67-148)
Mount(h) ==
  /\ Len(effects[h]) < MaxMounts
  /\ effects' = [effects EXCEPT ![h] = Append(@, NewEffect)]
  /\ UNCHANGED outsideEffects

\* DESCRIBE settles and setupSSE goes on (lines 128-143 / 74-89): without a
\* watch pathname or uriTemplate it returns, on rejection the catch logs,
\* otherwise the EventSource is created
DescribeSettles(h, m, outcome) ==
  /\ effects[h][m].describe = "pending"
  /\ effects' = [effects EXCEPT ![h][m] =
                   IF outcome = "resolved"
                   THEN [@ EXCEPT !.describe = outcome, !.eventSource = "open",
                                  !.created = @ + 1]
                   ELSE [@ EXCEPT !.describe = outcome]]
  /\ UNCHANGED outsideEffects

\* the cleanup of the effect (lines 203-208 / 150-155)
Cleanup(h, m) ==
  /\ ~effects[h][m].cleaned
  /\ effects' = [effects EXCEPT ![h][m].cleaned = TRUE,
                                ![h][m].eventSource = closeIfSet(@)]
  /\ UNCHANGED outsideEffects

MountHook == \E h \in SseHooks : Mount(h)
Describe ==
  \E h \in SseHooks : \E m \in 1..Len(effects[h]) :
     \E outcome \in {"resolved", "noWatch", "rejected"} :
        DescribeSettles(h, m, outcome)
Unmount == \E h \in SseHooks : \E m \in 1..Len(effects[h]) : Cleanup(h, m)

SseInit == Init /\ options = DefaultOptions
SseNext == MountHook \/ Describe \/ Unmount
SseSpec == SseInit /\ [][SseNext]_vars

(***************************************************************************)
(* The calls the mutations make to the server.  mutationFn runs once       *)
(* onMutate has returned; the server creates a resource for each CREATE    *)
(* it answers, and the watch endpoint then reports the new resource.       *)
(***************************************************************************)
\* resources created in a run
MaxCreated == 2
\* the CREATE calls in flight
PendingCreates ==
  Cardinality({id \in MutationIds :
                 mutations[id].state = "pending" /\ mutations[id].call = "CREATE"})

\* the call mutationFn makes (part_001 lines 229-254, part_002 lines
\* 178-184 and 265-268); useSetSelectedTheme UPDATEs cachedPreferences[0]
\* when the cached array has an entry and CREATEs otherwise
ServerCall(hook, cached) ==
  CASE hook = "useSetSelectedTheme" ->
         IF cached.defined /\ Len(cached.items) > 0 THEN "UPDATE" ELSE "CREATE"
    [] hook = "useCreateTodoSetting" -> "CREATE"
    [] OTHER -> "DELETE"

\* mutationFn of mutation id runs: it reads the cache and sends its call
mutationFn(id) ==
  /\ mutations[id].state = "pending" /\ mutations[id].call = ""
  /\ ServerCall(mutations[id].hook, cache) = "CREATE"
       => created + PendingCreates < MaxCreated
  /\ mutations' = [mutations EXCEPT ![id].call =
                     ServerCall(mutations[id].hook, cache)]
  /\ UNCHANGED <<queryKey, cache, invalidated, fetching, created>>

\* the server answers the call of mutation id, a CREATE with the resource
\* it has created, and onSuccess runs (it does nothing)
callResolved(id) ==
  /\ mutations[id].state = "pending" /\ mutations[id].call # ""
  /\ mutations' = [mutations EXCEPT ![id].state = "succeeded"]
  /\ created' = IF mutations[id].call = "CREATE" THEN created + 1 ELSE created
  /\ UNCHANGED <<queryKey, cache, invalidated, fetching>>

MutationFn == (\E id \in MutationIds : mutationFn(id)) /\ UNCHANGED outsideCache
CallDone == (\E id \in MutationIds : callResolved(id)) /\ UNCHANGED outsideCache

ServerInit == Init /\ options = DefaultOptions
ServerNext ==
  UseQuery \/ Fetch \/ Mutate \/ MutationFn \/ CallDone \/ Message
ServerSpec == ServerInit /\ [][ServerNext]_vars

(***************************************************************************)
(* The message handler of the SSE effect with its debounce (part_001       *)
(* lines 150-189, part_002 lines 92-136): one debounceTimer per run of the *)
(* effect; every message with a uri clears it and sets it again with a     *)
(* callback that reads the uri of that message and upserts the result.     *)
(***************************************************************************)
\* SSE messages per run
MaxMessages == 3

outsideDebounce ==
  <<handlerVars, streamVars, concVars, effects, queryKey, invalidated,
    fetching, mutations, created>>

\* eventSource.onmessage with update.uri = uri (part_001 lines 157-160,
\* part_002 lines 103-106): clearTimeout(debounceTimer), then setTimeout
setDebounceTimer(uri) ==
  /\ received < MaxMessages
  /\ debounceTimer' = uri
  /\ pendingUpdates' = pendingUpdates \cup {uri}
  /\ received' = received + 1
  /\ UNCHANGED <<reading, cache, outsideDebounce>>

\* 300 ms have passed since the last setTimeout: the callback starts the
\* READ of its uri (part_001 line 162, part_002 line 108)
timeoutCallback ==
  /\ debounceTimer # NoTimer
  /\ reading' = reading \cup {debounceTimer}
  /\ debounceTimer' = NoTimer
  /\ UNCHANGED <<pendingUpdates, received, cache, outsideDebounce>>

\* the READ of uri resolves and setQueryData upserts the resource
\* (part_001 lines 168-180, part_002 lines 114-127)
readResolved(uri) ==
  /\ uri \in reading
  /\ reading' = reading \ {uri}
  /\ cache' = Upsert(queryKey, cache, Item(uri, ""))
  /\ pendingUpdates' =
       IF debounceTimer = uri THEN pendingUpdates ELSE pendingUpdates \ {uri}
  /\ UNCHANGED <<debounceTimer, received, outsideDebounce>>

SseMessage ==
  /\ queryKey # "none"
  /\ \E uri \in WatchedUris[queryKey] : setDebounceTimer(uri)
Timeout == timeoutCallback
ReadDone == \E uri \in reading : readResolved(uri)

DebounceInit == Init /\ options = DefaultOptions
DebounceNext == UseQuery \/ SseMessage \/ Timeout \/ ReadDone
\* timers fire and the server answers every READ
DebounceSpec ==
  /\ DebounceInit /\ [][DebounceNext]_vars
  /\ WF_vars(Timeout) /\ WF_vars(ReadDone)

(***************************************************************************)
(* Properties.                                                             *)
(***************************************************************************)
\* the segments of s between the separators "/" and "\"
Segments(s) ==
  SplitOn([i \in 1..Len(s) |-> IF s[i] = "\\" THEN "/" ELSE s[i]], "/")
HasDotDotSegment(s) ==
  \E i \in 1..Len(Segments(s)) : Segments(s)[i] = <<".", ".">>

ByNotFound == result.by \in {"defaultNotFound", "options.onNotFound"}
Ended == pc = "done"

\* C1: without a fixed serve path, a request whose decoded pathname has a
\* ".." segment (between "/", "\" or the ends of the string) gets the
\* not-found response, and no file is looked up or streamed for it.
C1_TraversalIsNotFound ==
  (Ended /\ options.path = NoStr /\ ~DecodeThrows(req.url)
     /\ HasDotDotSegment(decodeURIComponent(req.url)))
  => (ByNotFound /\ result.body.type # "stream" /\ path = NoStr)

\* C1 witness: a pathname whose ".." is written with escapes was refused
C1_Witness ==
  /\ Ended /\ options.path = NoStr
  /\ \E i \in 1..Len(req.url) : req.url[i] = "%2E"
  /\ \E i \in 1..Len(req.url) : req.url[i] = "%2F"
  /\ HasDotDotSegment(decodeURIComponent(req.url))
  /\ ByNotFound

\* p, a joined path, names something in or below the root directory
InsideRoot(p) ==
  IF options.root = <<>>
  THEN p[1] # "/" /\ SplitOn(p, "/")[1] # <<".", ".">>
  ELSE \/ p = options.root
       \/ /\ Len(p) > Len(options.root)
          /\ SubSeq(p, 1, Len(options.root) + 1) = options.root \o <<"/">>

\* C2: when rewriteRequestPath is applied, the path joined with root stays
\* inside root: a request whose own path joins to a place inside root is
\* not taken outside root by ".." segments the rewrite introduces.
C2_RewriteStaysInsideRoot ==
  (CallsRewrite /\ path # NoStr /\ InsideRoot(join(options.root, filename)))
  => InsideRoot(path)

\* C3: every call ends in a Response (of the handler or of the not-found
\* collaborator); no call throws.
C3_NeverThrows == Ended => result.kind = "response"

\* C4: decode failure, traversal segment and stat failure all end in the
\* result of the not-found collaborator called with the request and env of
\* the call; without options.onNotFound that is 404 "Not Found", the same
\* for the three causes.
C4_FailuresAreNotFound ==
  (Ended /\ result.kind = "response"
     /\ \/ options.path = NoStr /\ DecodeThrows(req.url)
        \/ options.path = NoStr /\ ~DecodeThrows(req.url)
             /\ HasDotDotSegment(decodeURIComponent(req.url))
        \/ path # NoStr /\ stats = NoStats)
  => /\ result.nfReq = req /\ result.nfEnv = env /\ env \in Envs
     /\ result.headers = NoHeaders
     /\ IF options.onNotFound = "custom"
        THEN result.by = "options.onNotFound"
        ELSE /\ result.by = "defaultNotFound"
             /\ result.status = 404
             /\ result.body = TextBody("Not Found")

\* C4 witness: the stat of the resolved path failed and the default 404 was
\* returned
C4_Witness ==
  /\ Ended /\ path # NoStr /\ stats = NoStats
  /\ options.onNotFound = "default" /\ result.status = 404

IsGetOfFile ==
  /\ Ended /\ result.kind = "response" /\ ~ByNotFound
  /\ req.method = "GET" /\ stats.kind # "dir"

\* C5: a GET without Range that resolves to an existing file is answered
\* 200 with Content-Length equal to the byte size of the file served and a
\* body that delivers the whole file.
C5_FullResponse ==
  (IsGetOfFile /\ req.range = NoStr)
  => /\ result.status = 200
     /\ result.body.type = "stream"
     /\ BodyBytes(result.body) = ReadFile(path)
     /\ result.headers["Content-Length"] = Len(BodyBytes(result.body))

\* the numbers s and e of a header "bytes=s-e", when req.range is one
IsSimpleRange(s, e) == req.range = <<"bytes=">> \o Num(s) \o <<"-">> \o Num(e)

\* C6: a GET with Range: bytes=s-e, 0 <= s <= e <= size-1, is answered 206
\* with Accept-Ranges: bytes, Content-Range: bytes s-e/size,
\* Content-Length e-s+1 and the bytes s..e of the file.
C6_RangeResponse ==
  \A s, e \in 0..(MaxRangeNum + 1) :
    (IsGetOfFile /\ IsSimpleRange(s, e) /\ s <= e /\ e <= stats.size - 1)
    => /\ result.status = 206
       /\ result.headers["Accept-Ranges"] = "bytes"
       /\ result.headers["Content-Range"] =
            [start |-> s, end |-> e, size |-> stats.size]
       /\ result.headers["Content-Length"] = e - s + 1
       /\ BodyBytes(result.body) = SubSeq(ReadFile(path), s + 1, e + 1)

\* the two sides of the first range of header r, <<>> when absent
StartPart(r) == SplitOn(SubSeq(r, 2, Len(r)), "-")[1]
EndPart(r) ==
  LET pieces == SplitOn(SubSeq(r, 2, Len(r)), "-")
  IN IF Len(pieces) < 2 THEN <<>> ELSE pieces[2]
IsNumber(part) == part # <<>> /\ IsNumTok(part[1])

\* C7: start is the number of the start side and is 0 only when that side
\* is absent or no number; end is the number of the end side and is size-1
\* only when that side is absent or no number.
C7_RangeDefaults ==
  (Ended /\ req.method = "GET" /\ req.range \notin {NoStr, <<>>, Unread})
  => /\ RangeStart(req.range) =
          (IF IsNumber(StartPart(req.range))
           THEN NumOf(StartPart(req.range)[1]) ELSE 0)
     /\ RangeEndParsed(req.range, stats.size) =
          (IF IsNumber(EndPart(req.range))
           THEN NumOf(EndPart(req.range)[1]) ELSE stats.size - 1)

\* C8: a range whose end is beyond the last byte is answered with the end
\* clamped: Content-Range: bytes start-(size-1)/size and Content-Length
\* size-start.
C8_EndClamped ==
  \A s, e \in 0..(MaxRangeNum + 1) :
    (IsGetOfFile /\ IsSimpleRange(s, e) /\ s <= stats.size - 1
       /\ e > stats.size - 1)
    => /\ result.status = 206
       /\ result.headers["Content-Range"] =
            [start |-> s, end |-> stats.size - 1, size |-> stats.size]
       /\ result.headers["Content-Length"] = stats.size - s

\* C9: HEAD and OPTIONS of an existing target are answered 200 without a
\* body and without a stream, with Content-Length the size of the resolved
\* target, with or without a Range header, and without Content-Range or
\* Accept-Ranges.
C9_HeadersOnly ==
  (Ended /\ result.kind = "response" /\ ~ByNotFound
     /\ req.method \in {"HEAD", "OPTIONS"})
  => /\ result.status = 200
     /\ result.body = NoBody
     /\ result.headers["Content-Length"] = getStats(path).size
     /\ ~Has(result.headers, "Content-Range")
     /\ ~Has(result.headers, "Accept-Ranges")

\* C9 witness: a HEAD request with a Range header was answered
C9_Witness ==
  /\ Ended /\ req.method = "HEAD" /\ req.range \notin {NoStr, Unread}
  /\ result.status = 200 /\ result.headers["Content-Length"] = 3

\* the path joined from root and the request, before the directory test
JoinedPath == join(options.root, JoinArg(filename))
IndexPath == JoinedPath \o <<"/">> \o indexFile
IsPrefix(a, b) == Len(a) <= Len(b) /\ SubSeq(b, 1, Len(a)) = a
IndexContentType ==
  IF options.index = NoStr THEN "text/html; charset=utf-8"
  ELSE "application/octet-stream"

\* C10: when the resolved path is a directory, the index filename
\* (index.html unless configured) is appended and the result is looked up
\* once more: an existing index file is served with the content type of the
\* index file, a missing one gives the not-found response.
C10_DirectoryIndex ==
  (Ended /\ result.kind = "response" /\ filename # NoStr
     /\ getStats(JoinedPath).kind = "dir")
  => IF getStats(IndexPath).kind \in {"file", "symlink"}
     THEN /\ ~ByNotFound
          /\ IsPrefix(normalize(IndexPath), path)
          /\ result.headers["Content-Type"] = IndexContentType
     ELSE getStats(IndexPath) = NoStats => ByNotFound

\* C10 witness: a directory was requested and its index.html was served
C10_Witness ==
  /\ Ended /\ filename # NoStr /\ options.index = NoStr
  /\ getStats(JoinedPath).kind = "dir"
  /\ result.status = 200 /\ result.body.type = "stream"
  /\ result.headers["Content-Type"] = "text/html; charset=utf-8"

\* the path resolved by lines 95-108, before a precompressed variant replaces it
OriginalPath == ResolvedPath(filename)
HandlerResponse == Ended /\ result.kind = "response" /\ ~ByNotFound
SentAcceptEncoding == req.acceptEncoding \notin {Unread, NoStr}
Accepted ==
  IF SentAcceptEncoding THEN acceptEncodingSet(req.acceptEncoding) ELSE {}
\* the table's encodings the client accepts and the disk holds a variant of
Available ==
  {e \in {"br", "zstd", "gzip"} :
     e \in Accepted /\ getStats(OriginalPath \o ENCODINGS[e]) # NoStats}
\* br before zstd before gzip
Before == {<<"br", "zstd">>, <<"br", "gzip">>, <<"zstd", "gzip">>}

\* C11: with precompression enabled and a compressible content type, the
\* variant served is the first, in the order br, zstd, gzip, of those the
\* client accepts and the disk holds, whatever the order of the
\* Accept-Encoding header; Content-Encoding is that one token and Vary is
\* Accept-Encoding.
C11_TableOrderWins ==
  (HandlerResponse /\ options.precompressed /\ Available # {}
     /\ COMPRESSIBLE_CONTENT_TYPE_REGEX(getMimeType(OriginalPath)))
  => \E e \in Available :
        /\ \A k \in Available : k = e \/ <<e, k>> \in Before
        /\ result.headers["Content-Encoding"] = e
        /\ result.headers["Vary"] = "Accept-Encoding"
        /\ path = OriginalPath \o ENCODINGS[e]

\* C11 witness: index.html has a .br and a .gz variant, the client sent
\* "gzip, br", and br was served
C11_Witness ==
  /\ HandlerResponse /\ options.precompressed
  /\ req.acceptEncoding = <<"gzip", " br">>
  /\ Available = {"br", "gzip"}
  /\ Has(result.headers, "Content-Encoding")
  /\ result.headers["Content-Encoding"] = "br"

ServedUnchanged ==
  /\ path = OriginalPath
  /\ stats = getStats(OriginalPath)
  /\ ~Has(result.headers, "Content-Encoding")
  /\ ~Has(result.headers, "Vary")

\* C12 as stated: with precompression disabled, or a content type that is
\* not compressible, or no encoding both accepted and on disk, the original
\* file is served: its path and size, no Content-Encoding, no Vary.
C12_OriginalServed ==
  (HandlerResponse
     /\ \/ ~options.precompressed
        \/ ~COMPRESSIBLE_CONTENT_TYPE_REGEX(result.headers["Content-Type"])
        \/ Available = {})
  => ServedUnchanged

\* C12 amended: the same, where "not compressible" is a content type the
\* MIME lookup found and the compressible pattern does not match; a file
\* whose type the lookup does not know is negotiated like a compressible one.
C12_OriginalServedKnownType ==
  (HandlerResponse
     /\ \/ ~options.precompressed
        \/ /\ getMimeType(OriginalPath) # NoMime
           /\ ~COMPRESSIBLE_CONTENT_TYPE_REGEX(getMimeType(OriginalPath))
        \/ Available = {})
  => ServedUnchanged

\* C12 witness: precompression is on, the client accepts br, .a.br is on
\* disk, and .a, of a known type that is not compressible, is served itself
C12_Witness ==
  /\ HandlerResponse /\ options.precompressed
  /\ "br" \in Available
  /\ getMimeType(OriginalPath) = "image/png"
  /\ ServedUnchanged /\ result.headers["Content-Type"] = "image/png"

\* C13: with a fixed serve path every request resolves to
\* join(root, path) whatever its URL: nothing is decoded, tested or
\* rewritten, and a URL that is undecodable or has ".." gets the fixed file.
C13_FixedPath ==
  (Ended /\ options.path # NoStr)
  => /\ filename = options.path
     /\ ~ByNotFound
     /\ getStats(join(options.root, options.path)).kind = "file"
     /\ IsPrefix(join(options.root, options.path), path)
     /\ (req.method = "GET" /\ req.range = NoStr
           /\ ~Has(result.headers, "Content-Encoding"))
          => BodyBytes(result.body) = ReadFile(join(options.root, options.path))

\* C13 witness: an undecodable URL was answered with the fixed file
C13_Witness ==
  /\ Ended /\ options.path # NoStr /\ DecodeThrows(req.url)
  /\ result.status = 200 /\ result.body.type = "stream"
  /\ options.rewriteRequestPath # "none"

\* C14: with root "" a request path is resolved below the current working
\* directory: the path looked up is relative, never the absolute path the
\* URL spells.
C14_EmptyRootIsCwd ==
  (options.root = <<>> /\ options.path = NoStr /\ path # NoStr
     /\ options.rewriteRequestPath = "none")
  => path[1] # "/"

\* C15: every file stream opened for a response is closed in the end, after
\* normal completion, after cancellation by the consumer and after a read
\* error; a cancelled or errored response leaves no stream open.
C15_StreamsAreClosed ==
  /\ [](consumer.cancelled => fileStream.state # "open")
  /\ [](bodyStream.state = "errored" => fileStream.state # "open")
  /\ (fileStream.state = "open") ~> (fileStream.state = "closed")

\* C15 witness: the consumer cancelled before the file was read to its end
\* and the stream is closed
C15_Witness ==
  /\ consumer.cancelled /\ fileStream.state = "closed"
  /\ fileStream.pos < Len(Chunks)

\* C16: no file stream is created before the consumer begins to read the
\* body.
C16_OpenedLazily == fileStream.state # "none" => consumer.started

\* chunks the ReadableStream holds before it stops asking for more
HighWaterMark == 1

\* C17: the chunks enqueued and not yet consumed never exceed what the
\* body's queue asks for, however slowly the consumer reads.
C17_NoReadAhead == Len(bodyStream.queue) <= HighWaterMark

\* C18: calls are independent: in every interleaving of two calls, what a
\* call returns is what the same request gets when it is handled alone with
\* the same configuration and filesystem.
C18_CallsAreIndependent ==
  \A i \in CallIds :
     calls[i].pc = "done"
     => calls[i].result =
          AloneResult(calls[i].req, calls[i].env, calls[i].cDefined)

\* C18 witness: call 1 was answered with a file while call 2, for another
\* path, was between its lookup and its response
C18_Witness ==
  /\ calls[1].pc = "done" /\ calls[2].pc = "serve"
  /\ calls[1].result.body.type = "stream"
  /\ calls[1].result.body.path # locals[Slot(2)].path
  /\ calls[1].req.url # calls[2].req.url

\* the steps of mutation id, told by the change of its state
Mutated(id) ==
  mutations[id].state # "pending" /\ mutations'[id].state = "pending"
Failed(id) == mutations[id].state = "pending" /\ mutations'[id].state = "failed"
Succeeded(id) ==
  mutations[id].state = "pending" /\ mutations'[id].state = "succeeded"

\* the optimistic change of a mutation, on a cache that holds data
ChangeApplied(hook, arg, old, new) ==
  CASE hook = "useSetSelectedTheme" ->
         IF old.items = <<>> THEN new = old
         ELSE /\ new.items[1].selectedThemeUri = arg
              /\ new.items[1].uri = old.items[1].uri
              /\ Tail(new.items) = Tail(old.items)
    [] hook = "useCreateTodoSetting" ->
         /\ Len(new.items) = Len(old.items) + 1
         /\ SubSeq(new.items, 1, Len(old.items)) = old.items
         /\ new.items[Len(new.items)].uri = "temp"
         /\ new.totalCount = TotalOrZero(old) + 1
    [] OTHER ->
         /\ \A i \in 1..Len(new.items) : new.items[i].uri # arg
         /\ Len(new.items) =
              Cardinality({i \in 1..Len(old.items) : old.items[i].uri # arg})
         /\ new.totalCount + 1 = TotalOrZero(old) \/ new.totalCount = 0

\* onMutate keeps the cached value as its snapshot and applies the change at
\* once; a success rolls nothing back and invalidates nothing
SnapshotAndSuccess(id) ==
  /\ Mutated(id)
       => /\ mutations'[id].context = cache
          /\ IF cache.defined
             THEN ChangeApplied(mutations'[id].hook, mutations'[id].arg,
                                cache, cache')
             ELSE cache' = cache
  /\ Succeeded(id)
       => cache' = cache /\ invalidated' = invalidated /\ fetching' = fetching

C20_NoSourceAfterCleanup ==
  \A h \in SseHooks : \A m \in 1..Len(effects[h]) :
     /\ effects[h][m].created <= 1
     /\ effects[h][m].cleaned => effects[h][m].eventSource # "open"

(***************************************************************************)
(* Index directories, multi-range headers and the numbers of a 206.        *)
(***************************************************************************)
\* C21: when the index path of a requested directory is itself a
\* directory, the call ends in the not-found response and nothing is
\* streamed from it.
C21_IndexDirectoryIsNotFound ==
  (Ended /\ result.kind = "response" /\ filename # NoStr
     /\ getStats(JoinedPath).kind = "dir"
     /\ getStats(IndexPath).kind = "dir")
  => (ByNotFound /\ result.body.type # "stream")

\* a Range header with more than one range, and its first range alone
IsMultiRange(r) ==
  r \notin {NoStr, Unread} /\ \E i \in 1..Len(r) : r[i] = ","
FirstSegment(r) == SplitOn(r, ",")[1]

\* C22: a GET with a multi-range header gets the result of the same GET
\* with the first range alone, a 206 with one range when it is a response.
C22_FirstRangeOnly ==
  (Ended /\ result.by = "handler" /\ req.method = "GET"
     /\ IsMultiRange(req.range))
  => /\ result =
          ResponseFor([req EXCEPT !.range = FirstSegment(req.range)],
                      path, stats,
                      HSet(NoHeaders, "Content-Type", ContentType(path)))
     /\ result.kind = "response" => result.status = 206

\* C22 witness: a header whose first range is 0-1 and that has a second
\* range was answered, on a file of 3 bytes, with the range 0-1
C22_Witness ==
  /\ Ended /\ req.method = "GET"
  /\ IsMultiRange(req.range)
  /\ FirstSegment(req.range) = <<"bytes=", "0", "-", "1">>
  /\ result.status = 206
  /\ result.headers["Content-Range"] = [start |-> 0, end |-> 1, size |-> 3]
  /\ result.headers["Content-Length"] = 2

\* C24: every 206 response has 0 <= start <= end and a positive
\* Content-Length equal to end - start + 1.
C24_RangeNumbers ==
  (Ended /\ result.kind = "response" /\ result.status = 206)
  => /\ 0 <= result.headers["Content-Range"].start
     /\ result.headers["Content-Range"].start
          <= result.headers["Content-Range"].end
     /\ result.headers["Content-Length"] > 0
     /\ result.headers["Content-Length"] =
          result.headers["Content-Range"].end
            - result.headers["Content-Range"].start + 1

\* C24 witness: a 206 whose start is at the size of the file
C24_Witness ==
  /\ Ended /\ result.kind = "response" /\ result.status = 206
  /\ stats.kind = "file"
  /\ result.headers["Content-Range"].start >= stats.size

\* C23: a read error of the file stream becomes the error of the body
\* stream, and the transfer is over: from then on no chunk is enqueued,
\* nothing more is read from the file and the file is not opened again for
\* this response.
C23_ErrorEndsTransfer ==
  /\ [](fileStream.errored => bodyStream.state = "errored")
  /\ [][(fileStream.errored /\ pc' = "done")
          => /\ bodyStream' = bodyStream /\ bodyStream.queue = <<>>
             /\ fileStream'.pos = fileStream.pos
             /\ fileStream'.errored
             /\ fileStream'.state \in {"destroyed", "closed"}]_vars

\* C23 witness: a read failed in the middle of a file; the body stream is
\* errored and the file stream closed with the rest unread
C23_Witness ==
  /\ fileStream.errored /\ ~IsDirectoryTarget
  /\ 0 < fileStream.pos /\ fileStream.pos < Len(Chunks)
  /\ bodyStream.state = "errored" /\ fileStream.state = "closed"

\* C25: every SSE message with a uri is followed by a read of that uri and
\* the upsert of what was read, also when a message for another uri comes
\* before the timer of the first has fired.
C25_EveryUpdateIsApplied ==
  \A uri \in UNION {WatchedUris[k] : k \in DOMAIN WatchedUris} :
     (uri \in pendingUpdates) ~> (uri \notin pendingUpdates)

\* C26: once a theme creation has succeeded and the SSE update of the
\* created theme is in the cache (and no other creation is in flight), the
\* cache has one entry for it, no entry with the temporary uri, and a
\* totalCount equal to the number of items.
C26_OneEntryForCreated ==
  (/\ queryKey = "todoSettings"
   /\ \E id \in MutationIds :
         /\ mutations[id].hook = "useCreateTodoSetting"
         /\ mutations[id].state = "succeeded"
   /\ \A id \in MutationIds : mutations[id].state # "pending"
   /\ findIndex(cache.items, Created.uri) > 0)
  => /\ Cardinality({i \in 1..Len(cache.items) :
                       cache.items[i].uri = Created.uri}) = 1
     /\ findIndex(cache.items, "temp") = 0
     /\ cache.hasTotal /\ cache.totalCount = Len(cache.items)

\* C27: at most one app-preferences resource is ever created, and no CREATE
\* is in flight once one has been created.
C27_AtMostOneCreate ==
  queryKey = "appPreferences"
  => /\ created <= 1
     /\ created = 1 => PendingCreates = 0

=============================================================================
